---------------------------- MODULE Spec2Model ----------------------------
(***************************************************************************)
(* Model of src/index.ts of tech-pulse-agent: the Hacker News fetch        *)
(* helpers (fetchJSON, fetchStory, fetchStories, timeAgo) and the priced   *)
(* entrypoint handlers (top, best, new, ask, show, report).                *)
(*                                                                         *)
(* JavaScript values are represented as follows.                           *)
(*   - an optional field (a property that may be undefined) is a sequence  *)
(*     of length 0 (undefined) or 1 (the value);                           *)
(*   - JSON null is the record JsonNull;                                   *)
(*   - a template string is the tuple of its literal and interpolated      *)
(*     parts, e.g. `${seconds}s ago` is <<seconds, "s ago">>;              *)
(*   - an ISO-8601 string is the record of the day number and the          *)
(*     millisecond of the day it spells out;                               *)
(*   - the outcome of an async function is Return(v) or Throw(e).          *)
(***************************************************************************)
EXTENDS Integers, Sequences, FiniteSets, TLC

(***************************************************************************)
(* Bounds of the exploration.                                              *)
(***************************************************************************)
\* story ids the upstream listings draw from: 1..NumIds
NumIds == 3
\* longest id listing returned to a single-category operation
MaxLen == 3
\* largest `limit` explored for a single-category operation
MaxLimit == 2
\* longest id listing returned to the report operation, over ids 1..MaxReportLen
MaxReportLen == 1
\* largest `storiesPerCategory` explored for the report
MaxReportLimit == 1
\* most detail requests one invocation issues
MaxDetails == 2
\* epoch seconds of the stories upstream serves
StoryTime == 100000
\* elapsed times are explored within Window seconds of each threshold
Window == 4
\* longest top story list the insights block is computed over
MaxStories == 3
\* largest score / comment count of a story in the insights block
MaxCount == 3

(***************************************************************************)
(* Program constants.                                                      *)
(***************************************************************************)
\* z.number().min(1).max(30) of top, best, new
ListLimitMax == 30
\* z.number().min(1).max(20) of ask, show
AskShowLimitMax == 20
\* z.number().min(1).max(10) of report
ReportLimitMax == 10
\* thresholds of timeAgo
Minute == 60
Hour == 3600
Day == 86400

(***************************************************************************)
(* JavaScript helpers.                                                     *)
(***************************************************************************)
Undefined == <<>>
Some(v) == <<v>>
IsDefined(o) == Len(o) = 1
JsonNull == [null |-> TRUE]
IsNull(v) == "null" \in DOMAIN v

Return(v) == [ok |-> TRUE, val |-> v]
Throw(e) == [ok |-> FALSE, err |-> e]

\* Math.floor(a / b) for b > 0
Floor(a, b) == a \div b

\* [mutant of Round] Math.floor in place of Math.round
RoundDown(a, b) == a \div b

\* Math.round(a / b) for b > 0: the nearest integer, a half rounds towards +Infinity
Round(a, b) == (2 * a + b) \div (2 * b)

\* `o || d` for an optional number: undefined and 0 are falsy
OrElse(o, d) == IF IsDefined(o) /\ o[1] # 0 THEN o[1] ELSE d

\* `o || d` for an optional string: undefined and "" are falsy
OrElseStr(o, d) == IF IsDefined(o) /\ o[1] # "" THEN [href |-> o[1]] ELSE d

\* Date.prototype.toISOString of a valid time value (milliseconds)
ToISOString(ms) == [day |-> ms \div (Day * 1000), msOfDay |-> ms % (Day * 1000)]

\* new Date(isoTime).getTime()
DateParse(iso) == iso.day * (Day * 1000) + iso.msOfDay

\* `https://news.ycombinator.com/item?id=${id}`
HnItemUrl(id) == [base |-> "https://news.ycombinator.com/item?id=", id |-> id]

(***************************************************************************)
(* fetch: what the network hands back for one request.                     *)
(***************************************************************************)
NetError == [kind |-> "neterr"]
HttpResponse(status, body) == [kind |-> "http", status |-> status, body |-> body]
ResponseOk(r) == r.status >= 200 /\ r.status <= 299

\* async function fetchJSON(url): the outcome for a given network response
fetchJSON(resp) ==
    IF resp.kind = "neterr"
    THEN Throw([name |-> "TypeError", message |-> <<"fetch failed">>])
    ELSE IF ~ResponseOk(resp)
         THEN Throw([name |-> "Error", message |-> <<"API error: ", resp.status>>])
         ELSE Return(resp.body)

\* the object literal of fetchStory (lines 21-30); time must be a number
StoryOf(story) ==
    [id       |-> story.id,
     title    |-> story.title,
     url      |-> OrElseStr(story.url, HnItemUrl(story.id)),
     author   |-> story.by,
     score    |-> story.score,
     comments |-> OrElse(story.descendants, 0),
     time     |-> ToISOString(story.time[1] * 1000),
     type     |-> story.type]

\* [mutant of fetchStory] a failed request is reported as an absent item
fetchStoryLenient(resp) ==
    LET story == fetchJSON(resp) IN
    IF ~story.ok THEN Return(JsonNull)
    ELSE IF IsNull(story.val) THEN Return(JsonNull)
    ELSE IF ~IsDefined(story.val.time)
         THEN Throw([name |-> "RangeError", message |-> <<"Invalid time value">>])
         ELSE Return(StoryOf(story.val))

\* async function fetchStory(id): the outcome for a given network response
fetchStory(resp) ==
    LET story == fetchJSON(resp) IN
    IF ~story.ok THEN story
    ELSE IF IsNull(story.val) THEN Return(JsonNull)
    ELSE IF ~IsDefined(story.val.time)
         \* new Date(NaN).toISOString() throws
         THEN Throw([name |-> "RangeError", message |-> <<"Invalid time value">>])
         ELSE Return(StoryOf(story.val))

\* [mutant of Slice] the listing is not truncated
SliceAll(ids, limit) == ids

\* ids.slice(0, limit) for limit >= 0
Slice(ids, limit) == SubSeq(ids, 1, IF limit < Len(ids) THEN limit ELSE Len(ids))

\* stories.filter(Boolean): null entries are dropped, the rest keep their order
RECURSIVE FilterBoolean(_)
FilterBoolean(stories) ==
    IF stories = <<>> THEN <<>>
    ELSE IF IsNull(Head(stories)) THEN FilterBoolean(Tail(stories))
         ELSE <<Head(stories)>> \o FilterBoolean(Tail(stories))

\* [mutant of timeAgo] the thresholds are inclusive
timeAgoInclusive(isoTime, now) ==
    LET seconds == Floor(now - DateParse(isoTime), 1000) IN
    IF seconds <= Minute THEN <<seconds, "s ago">>
    ELSE IF seconds <= Hour THEN <<Floor(seconds, Minute), "m ago">>
    ELSE IF seconds <= Day THEN <<Floor(seconds, Hour), "h ago">>
    ELSE <<Floor(seconds, Day), "d ago">>

\* function timeAgo(isoTime), with Date.now() = now
timeAgo(isoTime, now) ==
    LET seconds == Floor(now - DateParse(isoTime), 1000) IN
    IF seconds < Minute THEN <<seconds, "s ago">>
    ELSE IF seconds < Hour THEN <<Floor(seconds, Minute), "m ago">>
    ELSE IF seconds < Day THEN <<Floor(seconds, Hour), "h ago">>
    ELSE <<Floor(seconds, Day), "d ago">>

(***************************************************************************)
(* The upstream API: what a request can be answered with.                  *)
(***************************************************************************)
Ids == 1..NumIds
\* the listing endpoints `${HN_API}/${c}stories.json` the handlers fetch
Categories == {"top", "best", "new", "ask", "show", "job"}

\* all sequences over S without repetition, of length at most n
RECURSIVE SeqsUpTo(_, _)
SeqsUpTo(S, n) ==
    IF n = 0 THEN {<<>>}
    ELSE LET shorter == SeqsUpTo(S, n - 1) IN
         shorter \cup
         {Append(pr[1], pr[2]) :
            pr \in {pr \in shorter \X S :
                      /\ Len(pr[1]) = n - 1
                      /\ \A i \in 1..(n - 1) : pr[1][i] # pr[2]}}

\* a RawItem with every optional field present
RawFull(id) ==
    [id |-> id, title |-> Some(<<"Story ", id>>), url |-> Some("https://example.com/post"),
     by |-> Some("pg"), score |-> Some(10 + id), descendants |-> Some(id),
     time |-> Some(StoryTime), type |-> Some("story")]

\* a RawItem without url, score and descendants (an Ask HN post without votes)
RawBare(id) ==
    [id |-> id, title |-> Some(<<"Ask HN ", id>>), url |-> Undefined,
     by |-> Some("dang"), score |-> Undefined, descendants |-> Undefined,
     time |-> Some(StoryTime), type |-> Some("story")]

\* a RawItem without time
RawNoTime(id) == [RawFull(id) EXCEPT !.time = Undefined]

RawItems(id) == {RawFull(id), RawBare(id), RawNoTime(id)}

FailResponses == {NetError, HttpResponse(500, JsonNull)}

\* answers to GET /item/{id}.json
ItemResponses(id) ==
    FailResponses \cup {HttpResponse(200, b) : b \in {JsonNull} \cup RawItems(id)}

\* id listings served to a single-category operation and to the report
CategoryListings == SeqsUpTo(Ids, MaxLen)
ReportListings == SeqsUpTo(1..MaxReportLen, MaxReportLen)

\* answers to GET /{c}stories.json during a single-category operation, the report
CategoryListingResponses ==
    FailResponses \cup {HttpResponse(200, ids) : ids \in CategoryListings}
ReportListingResponses ==
    FailResponses \cup {HttpResponse(200, ids) : ids \in ReportListings}
ListingResponses(key) ==
    IF key = "report" THEN ReportListingResponses ELSE CategoryListingResponses

\* Date.now() when a response is assembled (milliseconds)
NowVals == {StoryTime * 1000 + 45500, (StoryTime + 2 * Hour) * 1000}

(***************************************************************************)
(* One invocation of an entrypoint handler.                                *)
(*   op, limit  the entrypoint key and its validated limit                 *)
(*   pc         idle -> listing -> details -> done | failed                *)
(*   listings   per category, the state of its listing request             *)
(*   called     the categories fetchStories has been called for            *)
(*   details    per category, the array Promise.all collects: one slot per *)
(*              detail request, in the order of storyIds                   *)
(*   output     the handler's return value, once it returned               *)
(*   error      the error the handler rejected with, once it threw         *)
(*   requests   how many listing and item requests fetch() has been        *)
(*              called for                                                 *)
(*   settled    the slots <<category, index>> in the order in which their  *)
(*              detail requests resolved                                   *)
(*   call, ret  a direct call of a helper and its outcome                  *)
(* Each listing and each slot also keeps, as `net`, what the network       *)
(* answered its request with.                                              *)
(***************************************************************************)
VARIABLES op, limit, pc, listings, called, details, output, error, requests,
          settled, call, ret

vars == <<op, limit, pc, listings, called, details, output, error, requests,
          settled, call, ret>>

\* what the network answered a request with
NetClass(resp) ==
    IF resp.kind = "neterr" THEN "neterr"
    ELSE IF resp.status < 200 \/ resp.status > 299 THEN "status" ELSE "ok"

\* what the network answered an item request with
ItemClass(resp) ==
    IF NetClass(resp) # "ok" THEN NetClass(resp)
    ELSE IF IsNull(resp.body) THEN "null" ELSE "item"

Operations == {"top", "best", "new", "ask", "show", "report"}

\* the listings an entrypoint fetches
OpCats(key) == IF key = "report" THEN {"top", "best", "ask", "show", "job"} ELSE {key}

\* the input schema of each entrypoint: z.number().min(1).max(...)
LimitMax(key) ==
    IF key = "report" THEN ReportLimitMax
    ELSE IF key \in {"ask", "show"} THEN AskShowLimitMax ELSE ListLimitMax

LimitsOf(key) ==
    {l \in 1..(IF key = "report" THEN MaxReportLimit ELSE MaxLimit) : l <= LimitMax(key)}

NoListing == [st |-> "none", net |-> "none", ids |-> <<>>]

AllListed(key, ls) == \A c \in OpCats(key) : ls[c].st = "ok"

\* [mutant of DetailsToIssue] each category is fetched as soon as its own listing is in
DetailsToIssueEager(key, ls) == {c \in OpCats(key) : ls[c].st = "ok"}

\* The categories whose fetchStories call runs once the listings are as in ls:
\* every handler awaits all of its listing requests before it calls fetchStories.
DetailsToIssue(key, ls) == IF AllListed(key, ls) THEN OpCats(key) ELSE {}

\* fetchStories, up to its await: storyIds.map(fetchStory) issues every request
IssueDetails(ids, lim) ==
    LET storyIds == Slice(ids, lim) IN
    [i \in 1..Len(storyIds) |->
        [id |-> storyIds[i], st |-> "pending", net |-> "pending", val |-> JsonNull]]

\* [mutant of PromiseAllSettle] values are collected in the order of completion
PromiseAllArrival(values, index, v) ==
    LET first == CHOOSE k \in DOMAIN values :
                    /\ values[k].st = "pending"
                    /\ \A j \in DOMAIN values : j < k => values[j].st # "pending"
    IN [values EXCEPT ![first] = [@ EXCEPT !.st = "ok", !.val = v]]

\* Promise.all: the value a promise resolved with is stored at the promise's index
PromiseAllSettle(values, index, v) ==
    [values EXCEPT ![index] = [@ EXCEPT !.st = "ok", !.val = v]]

\* Once the handler has rejected, its locals and the array of the rejected
\* Promise.all are unreachable: only the requests still in flight remain.
DropValues(values) ==
    [i \in DOMAIN values |->
        IF values[i].st = "ok" THEN [values[i] EXCEPT !.st = "dropped", !.val = JsonNull]
        ELSE values[i]]

AllSettled(ds, cats) == \A c \in cats : \A i \in DOMAIN ds[c] : ds[c][i].st = "ok"

\* fetchStories, after its await: the resolved array, filtered
fetchStoriesResult(values) == FilterBoolean([i \in DOMAIN values |-> values[i].val])

\* stories.map(s => ({...s, timeAgo: timeAgo(s.time)}))
WithTimeAgo(stories, now) ==
    [i \in DOMAIN stories |-> stories[i] @@ [timeAgo |-> timeAgo(stories[i].time, now)]]

\* [mutant of WithTimeAgoAndLink] the link repeats the story's url
WithTimeAgoAndUrl(stories, now) ==
    [i \in DOMAIN stories |->
        stories[i] @@ [timeAgo |-> timeAgo(stories[i].time, now),
                       hnLink  |-> stories[i].url]]

\* stories.map(s => ({...s, timeAgo: timeAgo(s.time), hnLink: `...${s.id}`}))
WithTimeAgoAndLink(stories, now) ==
    [i \in DOMAIN stories |->
        stories[i] @@ [timeAgo |-> timeAgo(stories[i].time, now),
                       hnLink  |-> HnItemUrl(stories[i].id)]]

\* the return value of the top, best and new handlers
ListOutput(key, stories, now) ==
    [category  |-> key,
     count     |-> Len(stories),
     stories   |-> WithTimeAgo(stories, now),
     fetchedAt |-> ToISOString(now)]

\* the return value of the ask and show handlers
AskShowOutput(key, stories, now) ==
    [category    |-> key,
     description |-> IF key = "ask" THEN "Ask HN - Community questions and discussions"
                     ELSE "Show HN - Projects and products from the community",
     count       |-> Len(stories),
     stories     |-> WithTimeAgoAndLink(stories, now),
     fetchedAt   |-> ToISOString(now)]

\* allStories.reduce((sum, s) => sum + (s?.score || 0), 0)
RECURSIVE SumScore(_)
SumScore(stories) ==
    IF stories = <<>> THEN 0
    ELSE OrElse(Head(stories).score, 0) + SumScore(Tail(stories))

\* allStories.reduce((sum, s) => sum + (s?.comments || 0), 0)
RECURSIVE SumComments(_)
SumComments(stories) ==
    IF stories = <<>> THEN 0
    ELSE OrElse(Some(Head(stories).comments), 0) + SumComments(Tail(stories))

\* the comparator (a, b) => (b?.comments || 0) - (a?.comments || 0)
ByCommentsDesc(a, b) == OrElse(Some(b.comments), 0) - OrElse(Some(a.comments), 0)

\* [mutant of InsertSorted] x goes before the elements that compare equal to it
RECURSIVE InsertUnstable(_, _)
InsertUnstable(sorted, x) ==
    IF sorted = <<>> THEN <<x>>
    ELSE IF ByCommentsDesc(Head(sorted), x) >= 0 THEN <<x>> \o sorted
         ELSE <<Head(sorted)>> \o InsertUnstable(Tail(sorted), x)

\* Array.prototype.sort inserts x into a sorted array: stable, x goes before the
\* first element the comparator orders strictly after it
RECURSIVE InsertSorted(_, _)
InsertSorted(sorted, x) ==
    IF sorted = <<>> THEN <<x>>
    ELSE IF ByCommentsDesc(Head(sorted), x) > 0 THEN <<x>> \o sorted
         ELSE <<Head(sorted)>> \o InsertSorted(Tail(sorted), x)

RECURSIVE SortFrom(_, _)
SortFrom(sorted, rest) ==
    IF rest = <<>> THEN sorted
    ELSE SortFrom(InsertSorted(sorted, Head(rest)), Tail(rest))

\* [...topStories].sort(comparator): a sorted copy
SortedCopy(stories) == SortFrom(<<>>, stories)

\* the insights block of the report
Insights(topStories, bestStories) ==
    LET allStories == topStories \o bestStories
        avgScore == IF Len(allStories) > 0
                    THEN Round(SumScore(allStories), Len(allStories)) ELSE 0
        avgComments == IF Len(allStories) > 0
                       THEN Round(SumComments(allStories), Len(allStories)) ELSE 0
        sorted == SortedCopy(topStories)
    IN [averageScore    |-> avgScore,
        averageComments |-> avgComments,
        mostDiscussed   |-> IF sorted # <<>>
                            THEN [title    |-> sorted[1].title,
                                  comments |-> sorted[1].comments,
                                  score    |-> sorted[1].score]
                            ELSE JsonNull]

\* one entry of the report's categories
ReportSection(title, stories, now) ==
    [title |-> title, count |-> Len(stories), stories |-> WithTimeAgo(stories, now)]

\* the return value of the report handler; res maps a category to its stories
ReportOutput(lim, res, now) ==
    [report     |-> [generatedAt |-> ToISOString(now), storiesPerCategory |-> lim],
     insights   |-> Insights(res["top"], res["best"]),
     categories |-> [top  |-> ReportSection("Top Stories", res["top"], now),
                     best |-> ReportSection("Best Stories", res["best"], now),
                     ask  |-> ReportSection("Ask HN", res["ask"], now),
                     show |-> ReportSection("Show HN", res["show"], now),
                     jobs |-> ReportSection("Jobs", res["job"], now)],
     dataSource |-> "Hacker News API (live)"]

\* what a handler returns once every fetchStories call has resolved
HandlerOutput(key, lim, ds, now) ==
    IF key = "report"
    THEN ReportOutput(lim, [c \in OpCats(key) |-> fetchStoriesResult(ds[c])], now)
    ELSE IF key \in {"ask", "show"}
         THEN AskShowOutput(key, fetchStoriesResult(ds[key]), now)
         ELSE ListOutput(key, fetchStoriesResult(ds[key]), now)

\* the handler resumes when the promise it awaits settles
Resume(ls, cl, ds) ==
    IF AllListed(op, ls) /\ cl = OpCats(op) /\ AllSettled(ds, cl)
    THEN /\ pc' = "done"
         /\ \E now \in NowVals : output' = Some(HandlerOutput(op, limit, ds, now))
    ELSE /\ pc' = IF cl = OpCats(op) THEN "details" ELSE "listing"
         /\ output' = output

Init ==
    /\ op = "idle"
    /\ limit = 0
    /\ pc = "idle"
    /\ listings = [c \in Categories |-> NoListing]
    /\ called = {}
    /\ details = [c \in Categories |-> <<>>]
    /\ output = Undefined
    /\ error = Undefined
    /\ requests = [listing |-> 0, item |-> 0]
    /\ settled = <<>>
    /\ call = [fn |-> "none"]
    /\ ret = Undefined

\* the host calls the handler of entrypoint `key`; the handler issues its
\* listing request(s) and awaits them
Invoke(key, lim) ==
    /\ pc = "idle"
    /\ op' = key
    /\ limit' = lim
    /\ pc' = "listing"
    /\ listings' = [c \in Categories |->
                      IF c \in OpCats(key) THEN [NoListing EXCEPT !.st = "pending"]
                      ELSE NoListing]
    /\ requests' = [requests EXCEPT !.listing = @ + Cardinality(OpCats(key))]
    /\ UNCHANGED <<called, details, output, error, settled, call, ret>>

\* the number of slots of the fetchStories calls of ds
RECURSIVE SlotCount(_, _)
SlotCount(ds, cats) ==
    IF cats = {} THEN 0
    ELSE LET c == CHOOSE k \in cats : TRUE IN Len(ds[c]) + SlotCount(ds, cats \ {c})

\* a listing request settles with response resp
ListingSettles(c, resp) ==
    /\ pc = "listing"
    /\ listings[c].st = "pending"
    /\ LET ids == fetchJSON(resp) IN
       IF ~ids.ok
       THEN /\ pc' = "failed"
            /\ error' = Some(ids.err)
            /\ listings' = [k \in Categories |->
                              IF k = c
                              THEN [st |-> "failed", net |-> NetClass(resp), ids |-> <<>>]
                              ELSE [listings[k] EXCEPT !.ids = <<>>]]
            /\ UNCHANGED <<called, details, output, requests>>
       ELSE LET ls == [listings EXCEPT ![c] =
                          [st |-> "ok", net |-> NetClass(resp), ids |-> ids.val]]
                start == DetailsToIssue(op, ls) \ called
                ds == [k \in Categories |->
                         IF k \in start THEN IssueDetails(ls[k].ids, limit)
                         ELSE details[k]]
            IN /\ listings' = ls
               /\ called' = called \cup start
               /\ details' = ds
               /\ requests' = [requests EXCEPT !.item = @ + SlotCount(ds, start)]
               /\ Resume(ls, called \cup start, ds)
               /\ error' = error
    /\ UNCHANGED <<op, limit, settled, call, ret>>

\* [mutant of DetailSettles] a failed detail request is skipped, not fatal
DetailSettlesBestEffort(c, i, resp) ==
    /\ pc \in {"listing", "details"}
    /\ details[c][i].st = "pending"
    /\ LET story == fetchStory(resp)
           ds == [details EXCEPT
                    ![c] = PromiseAllSettle(@, i, IF story.ok THEN story.val ELSE JsonNull),
                    ![c][i].net = ItemClass(resp)] IN
       /\ details' = ds
       /\ settled' = Append(settled, <<c, i>>)
       /\ Resume(listings, called, ds)
       /\ error' = error
    /\ UNCHANGED <<op, limit, listings, called, requests, call, ret>>

\* the detail request of slot i of category c settles with response resp
DetailSettles(c, i, resp) ==
    /\ pc \in {"listing", "details"}
    /\ details[c][i].st = "pending"
    /\ LET story == fetchStory(resp) IN
       IF ~story.ok
       THEN /\ pc' = "failed"
            /\ error' = Some(story.err)
            /\ details' = [k \in Categories |->
                             IF k = c
                             THEN DropValues([details[k] EXCEPT
                                                ![i].st = "failed",
                                                ![i].net = ItemClass(resp)])
                             ELSE DropValues(details[k])]
            /\ settled' = <<>>
            /\ output' = output
       ELSE LET ds == [details EXCEPT
                          ![c] = PromiseAllSettle(@, i, story.val),
                          ![c][i].net = ItemClass(resp)] IN
            /\ details' = ds
            /\ settled' = Append(settled, <<c, i>>)
            /\ Resume(listings, called, ds)
            /\ error' = error
    /\ UNCHANGED <<op, limit, listings, called, requests, call, ret>>

\* a listing request settles after the handler has rejected: nobody awaits it
LateListing(c) ==
    /\ pc = "failed"
    /\ listings[c].st = "pending"
    /\ listings' = [listings EXCEPT ![c].st = "late"]
    /\ UNCHANGED <<op, limit, pc, called, details, output, error, requests,
                   settled, call, ret>>

\* a detail request settles after Promise.all has rejected: its outcome is dropped
LateDetail(c, i) ==
    /\ pc = "failed"
    /\ details[c][i].st = "pending"
    /\ details' = [details EXCEPT ![c][i].st = "late"]
    /\ UNCHANGED <<op, limit, pc, listings, called, output, error, requests,
                   settled, call, ret>>

\* the exploration keeps the detail requests of one invocation within MaxDetails
WithinBudget(c, resp) ==
    LET n(k) == IF k = c
                THEN (IF resp.kind = "http" /\ ResponseOk(resp)
                      THEN Len(Slice(resp.body, limit)) ELSE 0)
                ELSE Len(Slice(listings[k].ids, limit))
    IN n("top") + n("best") + n("new") + n("ask") + n("show") + n("job") <= MaxDetails

PendingListings == {c \in Categories : listings[c].st = "pending"}
PendingDetails(c) == {i \in DOMAIN details[c] : details[c][i].st = "pending"}

Next ==
    \/ \E key \in Operations : \E lim \in LimitsOf(key) : Invoke(key, lim)
    \/ \E c \in PendingListings : \E resp \in ListingResponses(op) :
          pc = "listing" /\ WithinBudget(c, resp) /\ ListingSettles(c, resp)
    \/ \E c \in called : \E i \in PendingDetails(c) :
          \E resp \in ItemResponses(details[c][i].id) : DetailSettles(c, i, resp)
    \/ \E c \in PendingListings : LateListing(c)
    \/ \E c \in called : \E i \in PendingDetails(c) : LateDetail(c, i)

Spec == Init /\ [][Next]_vars

(***************************************************************************)
(* Direct calls of the helpers timeAgo and fetchStory.                     *)
(***************************************************************************)
\* elapsed seconds explored: within Window of each threshold and of each
\* elapsed time the specification names
Marks == {0, 45, Minute, 125, Hour, 2 * Hour, Day, 2 * Day}
ElapsedVals == UNION {(k - Window)..(k + Window) : k \in Marks}
MsVals == {0, 1, 999}

TimeAgoCalls ==
    {[fn |-> "timeAgo", isoTime |-> ToISOString(StoryTime * 1000),
      now |-> (StoryTime + e) * 1000 + ms] : e \in ElapsedVals, ms \in MsVals}

\* the RawItems explored in a direct call of fetchStory
OptCounts == {Undefined, Some(0), Some(5)}
RawVariants(id) ==
    {[RawFull(id) EXCEPT !.url = u, !.score = sc, !.descendants = d, !.time = t] :
        u \in {Undefined, Some(""), Some("https://example.com/post")},
        sc \in OptCounts, d \in OptCounts, t \in {Undefined, Some(StoryTime)}}

\* every answer to GET /item/{id}.json explored in a direct call
AllItemResponses(id) ==
    {NetError} \cup {HttpResponse(st, b) : st \in {200, 404, 500},
                                           b \in {JsonNull} \cup RawVariants(id)}

FetchStoryCalls ==
    UNION {{[fn |-> "fetchStory", id |-> id, resp |-> r] : r \in AllItemResponses(id)} :
             id \in Ids}

InitHelpers ==
    /\ op = "idle"
    /\ limit = 0
    /\ pc = "idle"
    /\ listings = [c \in Categories |-> NoListing]
    /\ called = {}
    /\ details = [c \in Categories |-> <<>>]
    /\ output = Undefined
    /\ error = Undefined
    /\ requests = [listing |-> 0, item |-> 0]
    /\ settled = <<>>
    /\ call \in TimeAgoCalls \cup FetchStoryCalls
    /\ ret = Undefined

CallTimeAgo ==
    /\ call.fn = "timeAgo"
    /\ ret = Undefined
    /\ ret' = Some(timeAgo(call.isoTime, call.now))
    /\ UNCHANGED <<op, limit, pc, listings, called, details, output, error,
                   requests, settled, call>>

CallFetchStory ==
    /\ call.fn = "fetchStory"
    /\ ret = Undefined
    /\ ret' = Some(fetchStory(call.resp))
    /\ UNCHANGED <<op, limit, pc, listings, called, details, output, error,
                   requests, settled, call>>

NextHelpers == CallTimeAgo \/ CallFetchStory

SpecHelpers == InitHelpers /\ [][NextHelpers]_vars

(***************************************************************************)
(* The report handler from the point where its five fetchStories calls     *)
(* have resolved (line 260), over bounded story lists.                     *)
(***************************************************************************)
\* a story with the given score (optional) and comment count
CountedStory(id, sc, cm) ==
    StoryOf([RawFull(id) EXCEPT !.score = sc, !.descendants = Some(cm)])

CountVariants == {Undefined, Some(MaxCount)} \X (0..MaxCount)

\* story lists of exactly n stories, with ids from + 1 .. from + n
StoryLists(from, n) ==
    {[i \in 1..n |-> CountedStory(from + i, v[i][1], v[i][2])] :
        v \in [1..n -> CountVariants]}

TopLists == UNION {StoryLists(0, n) : n \in 0..MaxStories}
\* the best list holds at most one story
BestLists == StoryLists(MaxStories, 0) \cup StoryLists(MaxStories, 1)
\* ask, show and job each hold one story that outscores every top and best story
OtherList(k) == <<CountedStory(MaxStories + 1 + k, Some(10 * MaxCount), 10 * MaxCount)>>

\* the array a resolved Promise.all holds for the stories
ResolvedSlots(stories) ==
    [i \in DOMAIN stories |->
        [id |-> stories[i].id, st |-> "ok", net |-> "item", val |-> stories[i]]]

InitInsights ==
    /\ op = "report"
    /\ limit \in {l \in {MaxStories} : l <= ReportLimitMax}
    /\ pc = "details"
    /\ called = OpCats("report")
    /\ \E top \in TopLists : \E best \in BestLists :
          /\ details = [c \in Categories |->
                          ResolvedSlots(CASE c = "top" -> top
                                          [] c = "best" -> best
                                          [] c = "ask" -> OtherList(1)
                                          [] c = "show" -> OtherList(2)
                                          [] c = "job" -> OtherList(3)
                                          [] OTHER -> <<>>)]
          /\ listings = [c \in Categories |->
                           IF c \in OpCats("report")
                           THEN [st |-> "ok", net |-> "ok",
                                 ids |-> [i \in DOMAIN details[c] |-> details[c][i].id]]
                           ELSE NoListing]
          /\ requests = [listing |-> 5, item |-> SlotCount(details, OpCats("report"))]
    /\ output = Undefined
    /\ error = Undefined
    /\ settled = <<>>
    /\ call = [fn |-> "none"]
    /\ ret = Undefined

\* the report handler resumes after `await Promise.all([...fetchStories])`
ReportResumes ==
    /\ op = "report"
    /\ pc = "details"
    /\ AllSettled(details, called)
    /\ Resume(listings, called, details)
    /\ UNCHANGED <<op, limit, listings, called, details, error, requests,
                   settled, call, ret>>

NextInsights == ReportResumes

SpecInsights == InitInsights /\ [][NextInsights]_vars

(***************************************************************************)
(* Properties.                                                             *)
(***************************************************************************)
Done == pc = "done"
Out == output[1]
FailedNet == {"neterr", "status"}

\* the key of a category in the report's `categories`
SectionOf(c) == IF c = "job" THEN "jobs" ELSE c

\* the stories the handler returned for category c
StoriesOut(c) ==
    IF op = "report" THEN Out.categories[SectionOf(c)].stories ELSE Out.stories

IdsOut(c) == [i \in DOMAIN StoriesOut(c) |-> StoriesOut(c)[i].id]

Min(a, b) == IF a < b THEN a ELSE b

\* the ids fetchStories was to resolve: the first `limit` ids of the listing
Requested(c) == [i \in 1..Min(limit, Len(listings[c].ids)) |-> listings[c].ids[i]]

\* the slots whose request upstream answered with an item
ItemSlots(c) == {i \in DOMAIN details[c] : details[c][i].net = "item"}

\* the number of elements of S up to i
Rank(S, i) == Cardinality({j \in S : j <= i})

RECURSIVE Total(_)
Total(ns) == IF ns = <<>> THEN 0 ELSE Head(ns) + Total(Tail(ns))

\* C1: the list fetchStories returns holds the stories of the first `limit` ids
\* that resolved to an item, in the order of those ids in the listing, whatever
\* the order in which the detail requests completed.
C1_OutputInInputOrder ==
    Done =>
      \A c \in OpCats(op) :
        /\ DOMAIN details[c] = DOMAIN Requested(c)
        /\ Len(IdsOut(c)) = Cardinality(ItemSlots(c))
        /\ \A i \in ItemSlots(c) : IdsOut(c)[Rank(ItemSlots(c), i)] = Requested(c)[i]

\* C1 witness: the second detail request completed before the first, and both
\* stories were returned
C1_ReverseCompletion ==
    /\ Done
    /\ op = "top"
    /\ settled = <<<<"top", 2>>, <<"top", 1>>>>
    /\ Len(IdsOut("top")) = 2
    /\ IdsOut("top")[1] > IdsOut("top")[2]

\* C2: a detail request that fails (transport error or non-success status)
\* fails the whole handler: no output is ever returned, whatever the other
\* requests do; a returned list holds exactly the items upstream served; and
\* every slot is requested exactly once (no retry).
C2_BatchFailsAsAWhole ==
    /\ \A c \in Categories : \A i \in DOMAIN details[c] :
          details[c][i].net \in FailedNet =>
             pc = "failed" /\ output = Undefined /\ IsDefined(error)
    /\ Done =>
          \A c \in OpCats(op) :
             /\ \A i \in DOMAIN details[c] : details[c][i].net \in {"null", "item"}
             /\ Len(StoriesOut(c)) = Cardinality(ItemSlots(c))
    /\ requests.item = SlotCount(details, called)

\* C2 witness: one request of a batch failed after another had resolved
C2_FailedAfterSuccess ==
    /\ op = "best"
    /\ pc = "failed"
    /\ Len(details["best"]) = 2
    /\ details["best"][1].st = "dropped"
    /\ details["best"][1].net = "item"
    /\ details["best"][2].net = "status"

\* C3: in the report, a failed listing request or a failed detail request of
\* any category fails the whole report: an output object is returned only when
\* every upstream request of the invocation succeeded.
C3_ReportFailsAsAWhole ==
    op = "report" =>
      /\ ( \/ \E c \in Categories : listings[c].net \in FailedNet
           \/ \E c \in Categories : \E i \in DOMAIN details[c] :
                 details[c][i].net \in FailedNet )
         => pc = "failed" /\ output = Undefined
      /\ IsDefined(output) =>
           /\ \A c \in OpCats("report") : listings[c].net = "ok"
           /\ \A c \in OpCats("report") : \A i \in DOMAIN details[c] :
                 details[c][i].net \in {"null", "item"}
           /\ {"insights", "categories"} \subseteq DOMAIN Out

\* C3 witness: a detail request of one category failed after a detail request
\* of another category had resolved
C3_OneCategoryFails ==
    /\ op = "report"
    /\ pc = "failed"
    /\ \E c \in Categories : \E d \in Categories \ {c} :
          /\ \E i \in DOMAIN details[c] : details[c][i].net \in FailedNet
          /\ \E i \in DOMAIN details[d] :
                details[d][i].st = "dropped" /\ details[d][i].net = "item"

\* C4: a category operation returns count = the length of its story list =
\* the number of the first `limit` listing ids that resolved to an item; so
\* count <= limit, count <= listing length, and the stories keep the relative
\* order of their ids in the listing.
C4_CountIsFilteredLength ==
    (Done /\ op # "report") =>
      LET ids == listings[op].ids
          items == {i \in 1..Min(limit, Len(ids)) :
                      i \in DOMAIN details[op] /\ details[op][i].net = "item"}
          pos(id) == CHOOSE k \in DOMAIN ids : ids[k] = id
      IN /\ Out.count = Len(Out.stories)
         /\ Out.count = Cardinality(items)
         /\ Out.count <= limit
         /\ Out.count <= Len(ids)
         /\ \A a, b \in DOMAIN Out.stories :
               a < b => pos(Out.stories[a].id) < pos(Out.stories[b].id)

\* C4 witness: three ids listed, limit 2, one of the first two absent: count 1
C4_OneAbsent ==
    /\ Done
    /\ op = "top"
    /\ Len(listings["top"].ids) = 3
    /\ limit = 2
    /\ details["top"][1].net = "null"
    /\ details["top"][2].net = "item"
    /\ Out.count = 1

\* C5 (as stated): fetchStory yields null exactly when the request succeeded
\* with no item; a failed request always throws; a successful response that
\* carries an item always yields a Story.
C5_FetchStoryOutcomes ==
    (call.fn = "fetchStory" /\ IsDefined(ret)) =>
      LET r == ret[1]
          cls == ItemClass(call.resp)
      IN /\ (r.ok /\ IsNull(r.val)) <=> (cls = "null")
         /\ cls \in FailedNet => ~r.ok
         /\ cls = "item" => (r.ok /\ ~IsNull(r.val))

\* C6: averageScore and averageComments are the means, rounded to the nearest
\* integer with halves rounded up, of score (missing counted as 0) and comments
\* over top followed by best only; both are 0 when that list is empty.
C6_AveragesAreRoundedMeans ==
    Done =>
      LET all == [i \in DOMAIN details["top"] |-> details["top"][i].val]
                 \o [i \in DOMAIN details["best"] |-> details["best"][i].val]
          n == Len(all)
          scores == Total([i \in 1..n |->
                             IF IsDefined(all[i].score) THEN all[i].score[1] ELSE 0])
          comments == Total([i \in 1..n |-> all[i].comments])
          nearest(a, sum) == 2 * n * a <= 2 * sum + n /\ 2 * sum + n < 2 * n * (a + 1)
      IN IF n = 0
         THEN Out.insights.averageScore = 0 /\ Out.insights.averageComments = 0
         ELSE /\ nearest(Out.insights.averageScore, scores)
              /\ nearest(Out.insights.averageComments, comments)

\* C6 witness: the mean score is exactly halfway between two integers, and one
\* of the stories has no score
C6_HalfRoundsUp ==
    /\ Done
    /\ Len(details["top"]) = 1
    /\ Len(details["best"]) = 1
    /\ ~IsDefined(details["top"][1].val.score)
    /\ IsDefined(details["best"][1].val.score)
    /\ details["best"][1].val.score[1] % 2 = 1
    /\ 2 * Out.insights.averageScore = details["best"][1].val.score[1] + 1

\* C7: mostDiscussed is null when the top list is empty; otherwise it is the
\* first story of the top list, in the list's order, whose comments value is the
\* maximum over the top list; the top list is returned in its own order.
C7_MostDiscussedIsFirstMax ==
    Done =>
      LET top == [i \in DOMAIN details["top"] |-> details["top"][i].val]
          md == Out.insights.mostDiscussed
      IN /\ IF top = <<>> THEN IsNull(md)
            ELSE \E i \in DOMAIN top :
                    /\ md = [title |-> top[i].title, comments |-> top[i].comments,
                             score |-> top[i].score]
                    /\ \A j \in DOMAIN top : top[j].comments <= top[i].comments
                    /\ \A j \in DOMAIN top : j < i => top[j].comments < top[i].comments
         /\ IdsOut("top") = [i \in DOMAIN top |-> top[i].id]

\* C7 witness: the maximum is shared by the second and the third top story
C7_TieAtMaximum ==
    /\ Done
    /\ Len(details["top"]) = 3
    /\ details["top"][1].val.comments < details["top"][2].val.comments
    /\ details["top"][2].val.comments = details["top"][3].val.comments
    /\ details["top"][2].val.score # details["top"][3].val.score
    /\ Out.insights.mostDiscussed.title = details["top"][2].val.title

C9_TimeAgoThresholds ==
    (call.fn = "timeAgo" /\ IsDefined(ret)) =>
      LET d == call.now - (call.isoTime.day * 86400000 + call.isoTime.msOfDay)
          e == d \div 1000
          n == ret[1][1]
          unit == ret[1][2]
      IN /\ Len(ret[1]) = 2
         /\ e < 60 => (unit = "s ago" /\ n = e)
         /\ (60 <= e /\ e < 3600) => (unit = "m ago" /\ 60 * n <= e /\ e < 60 * (n + 1))
         /\ (3600 <= e /\ e < 86400) =>
               (unit = "h ago" /\ 3600 * n <= e /\ e < 3600 * (n + 1))
         /\ 86400 <= e => (unit = "d ago" /\ 86400 * n <= e /\ e < 86400 * (n + 1))
         /\ e = 45 => ret[1] = <<45, "s ago">>
         /\ e = 125 => ret[1] = <<2, "m ago">>
         /\ e = 7200 => ret[1] = <<2, "h ago">>
         /\ e = 172800 => ret[1] = <<2, "d ago">>

\* C9 witness: exactly one hour elapsed, labelled in hours
C9_ExactlyOneHour ==
    /\ call.fn = "timeAgo"
    /\ call.now - (call.isoTime.day * 86400000 + call.isoTime.msOfDay) = 3600000
    /\ ret = Some(<<1, "h ago">>)

\* C10: in the report no item request is issued before all five listing
\* requests have succeeded, and none is ever issued once a listing request
\* has failed.
C10_ListingBarrier ==
    op = "report" =>
      /\ (requests.item > 0 \/ called # {} \/ \E c \in Categories : details[c] # <<>>)
            => \A c \in OpCats("report") :
                  listings[c].st = "ok" /\ listings[c].net = "ok"
      /\ (\E c \in Categories : listings[c].st = "failed")
            => (requests.item = 0 /\ called = {}
                /\ \A c \in Categories : details[c] = <<>>)

\* C10 witness: a listing has returned ids while another listing is pending,
\* and no item request has been issued
C10_HeldBack ==
    /\ op = "report"
    /\ pc = "listing"
    /\ listings["top"].st = "ok"
    /\ listings["top"].ids # <<>>
    /\ listings["job"].st = "pending"
    /\ requests.item = 0

=============================================================================
